---- MODULE Spec2Model ----
(***************************************************************************)
(* A model of the AD7745 capacitance-to-digital converter driver           *)
(* (src/AD7745_Driver.py): the register codec, the register transport      *)
(* (Binho I2C bridge) calls each operation issues, the acquisition polling *)
(* loop, the DAC-trim calibration scan and the shutdown path.              *)
(*                                                                         *)
(* The device is simulated as a register file that stores every byte       *)
(* written to a writable register; the status and data registers are       *)
(* driven by the device (the environment), never by the driver.            *)
(***************************************************************************)
EXTENDS Integers, Sequences, FiniteSets, TLC

----------------------------------------------------------------------------
(* Register map and bit masks (class attributes of AD7745).                *)

I2C_INDEX == 0
WRITE_ADDR == 144
READ_ADDR == 145

STATUS_ADDR == 0
STATUS_EXCERR == 8
STATUS_RDY == 4
STATUS_RDYVT == 2
STATUS_RDYCAP == 1

CAP_DATA_H_ADDR == 1
CAP_DATA_M_ADDR == 2
CAP_DATA_L_ADDR == 3

VT_DATA_H_ADDR == 4
VT_DATA_M_ADDR == 5
VT_DATA_L_ADDR == 6

CAP_SETUP_ADDR == 7
CAP_SETUP_CAPEN == 128
CAP_SETUP_CIN2 == 64
CAP_SETUP_CAPDIFF == 32
CAP_SETUP_CAPCHOP == 1

VT_SETUP_ADDR == 8
VT_SETUP_VTEN == 128
VT_SETUP_VTMD1 == 64
VT_SETUP_VTMD0 == 32
VT_SETUP_EXTREF == 16
VT_SETUP_VTSHORT == 2
VT_SETUP_VTCHOP == 1

EXC_SETUP_ADDR == 9
EXC_SETUP_CLKCTRL == 128
EXC_SETUP_EXCON == 64
EXC_SETUP_EXCB == 32
EXC_SETUP_UEXCB == 16
EXC_SETUP_EXCA == 8
EXC_SETUP_UEXCA == 4
EXC_SETUP_EXCLVL1 == 2
EXC_SETUP_EXCLVL0 == 1

CONFIG_ADDR == 10
CONFIG_VTFS1 == 128
CONFIG_VTFS0 == 64
CONFIG_CAPFS2 == 32
CONFIG_CAPFS1 == 16
CONFIG_CAPFS0 == 8
CONFIG_MD2 == 4
CONFIG_MD1 == 2
CONFIG_MD0 == 1

CAP_DAC_A_ADDR == 11
CAP_DAC_A_DACAENA == 128
CAP_DAC_A_DACA7bit == 127

CAP_DAC_B_ADDR == 12
CAP_DAC_B_DACBENB == 128
CAP_DAC_B_DACB7bit == 127

CAP_OFFSET_H_ADDR == 13
CAP_OFFSET_L_ADDR == 14

CAP_GRAIN_H_ADDR == 15
CAP_GRAIN_L_ADDR == 16

VOLT_GRAIN_H_ADDR == 17
VOLT_GRAIN_L_ADDR == 18

\* The register space of the chip: offsets 0x00 .. 0x12.
RegAddrs == STATUS_ADDR .. VOLT_GRAIN_L_ADDR

\* Registers the device drives itself; a byte written to them is not stored.
ReadOnlyRegs == STATUS_ADDR .. VT_DATA_L_ADDR

----------------------------------------------------------------------------
(* Python's integer operators on the values the driver handles.            *)

\* bool(byte & mask) for a single-bit mask.
TestBit(byte, mask) == (byte \div mask) % 2 = 1

\* byte & mask where mask = 2^k - 1 (the 7-bit code fields).
AndLow(byte, mask) == byte % (mask + 1)

\* x << n
Shl(x, n) == x * (2 ^ n)

\* x >> n
Shr(x, n) == x \div (2 ^ n)

\* a | b on 8-bit operands, bit by bit.
RECURSIVE BitOr8(_, _, _)
BitOr8(a, b, k) ==
    IF k = 8 THEN 0
    ELSE (IF TestBit(a, 2 ^ k) \/ TestBit(b, 2 ^ k) THEN 2 ^ k ELSE 0)
         + BitOr8(a, b, k + 1)

BitOr(a, b) == BitOr8(a, b, 0)

----------------------------------------------------------------------------
(* The value structures (dataclasses) of the four bitfield register groups *)

cap_setup_reg == [CAPEN : BOOLEAN, CIN2 : BOOLEAN, CAPDIFF : BOOLEAN, CAPCHOP : BOOLEAN]

vt_setup_reg ==
    [VTEN : BOOLEAN, VTMD1 : BOOLEAN, VTMD0 : BOOLEAN,
     EXTREF : BOOLEAN, VTSHORT : BOOLEAN, VTCHOP : BOOLEAN]

exc_setup_reg ==
    [CLKCTRL : BOOLEAN, EXCON : BOOLEAN, EXCB : BOOLEAN, UEXCB : BOOLEAN,
     EXCA : BOOLEAN, UEXCA : BOOLEAN, EXCLVL1 : BOOLEAN, EXCLVL0 : BOOLEAN]

configuration_reg ==
    [VTFS1 : BOOLEAN, VTFS0 : BOOLEAN, CAPFS2 : BOOLEAN, CAPFS1 : BOOLEAN,
     CAPFS0 : BOOLEAN, MD2 : BOOLEAN, MD1 : BOOLEAN, MD0 : BOOLEAN]

\* "if val.F: value += MASK"
AddIf(flag, mask) == IF flag THEN mask ELSE 0

----------------------------------------------------------------------------
(* State                                                                   *)

VARIABLES
    regs,          \* the device's register file, offset -> byte
    cont_conv,     \* self.cont_conv
    _cap_dac_lsb,  \* self._cap_dac_lsb: <<>> while None, <<v>> once memoized
    closes,        \* how many times i2cbus.close() has been invoked
    alive,         \* the instance has not been destroyed (__del__ has not run)
    op,            \* the driver call in progress or last completed
    pc,            \* "idle" between calls, or the position inside a call
    log,           \* the transport calls issued by the current call, in order
    err,           \* the exception the current call raised, or NoError
    ret,           \* [op, val]: the call that returned last and its value, or NoResult
    now,           \* time.time()
    start_time,    \* start_time of the acquisition in progress
    timeout,       \* timeout of the acquisition in progress
    failAt,        \* [at, answer]: the transport call (by position in the call)
                   \* the bridge fails at, 0 for none, and what it answers there
    given,         \* the structure the caller holds: [addr: its group, val: its fields]
    start,         \* cal_low_val: the scan variable "start"
    st_val,        \* cal_low_val: the floor it was called with
    zeroFrom,      \* simulated sensor: readings are zero from this DAC-A code on
    satBelow,      \* simulated sensor: readings are 0xFFFFFF below this DAC-A code
    entryMode,     \* mode bits MD2..MD0 of the device when the acquisition began
    arg,           \* [op, val]: the call in progress or last completed and its argument
    shadow,        \* per register group, the structure last passed to its setter
    hist           \* what the status reads of the acquisition in progress have shown

vars ==
    <<regs, cont_conv, _cap_dac_lsb, closes, alive, op, pc, log, err, ret, now,
      start_time, timeout, failAt, given, start, st_val, zeroFrom, satBelow,
      entryMode, arg, shadow, hist>>

None == "None"
NoError == "none"
ValueError == "ValueError"
RuntimeError == "RuntimeError"
ExcitationError == "IOError: Excitation output cannot be driven properly!"
TimeoutError == "IOError: Sensor was not ready in time!"
CalibrationError == "IOError: Failed to find a valid CDAC value!"

----------------------------------------------------------------------------
(* The register transport.  A call in progress is carried as a record      *)
(*   t = [regs, log, err, ret, now, loop, failAt];                         *)
(* once t.err is set (an exception is propagating) every later statement   *)
(* of the call is skipped.  t.loop tells that the polling loop of          *)
(* get_raw_cap_val goes round again.                                       *)

\* The call state at the entry of a driver call.
Entry ==
    [regs |-> regs, log |-> <<>>, err |-> NoError, ret |-> None, now |-> now,
     loop |-> FALSE, failAt |-> failAt]

\* The call state of a call that is resumed (the acquisition polling loop).
Resume ==
    [regs |-> regs, log |-> log, err |-> err, ret |-> ret, now |-> now,
     loop |-> FALSE, failAt |-> failAt]

\* The calls that return a value.
Returning ==
    {"cap_setup", "vt_setup", "exc_setup", "configuration", "cap_daca", "cap_dacb",
     "get_raw_cap_val", "cal_low_val", "status", "cap_data", "vt_data", "cap_offset",
     "cap_gain", "volt_gain", "cap_dac_lsb", "cap_val_to_pf", "read_byte"}

\* No call has returned a value: the last call raised, returned None, or is
\* in progress.
NoResult == [op |-> None, val |-> None]

\* What call o leaves as its result when it ends in call state t.
Result(t, o) ==
    IF t.err = NoError /\ o \in Returning THEN [op |-> o, val |-> t.ret] ELSE NoResult

\* Call o with argument a.
Called(o, a) == [op |-> o, val |-> a]

\* The value of F at the value of e, with e computed once.
Bind(e, F(_)) == CHOOSE r \in {F(v) : v \in {e}} : TRUE

Raise(t, e) == Bind(t, LAMBDA c : IF c.err # NoError THEN c ELSE [c EXCEPT !.err = e])

Return(t, v) == Bind(t, LAMBDA c : IF c.err # NoError THEN c ELSE [c EXCEPT !.ret = v])

\* The bridge answers every call as it should.
NoFault == [at |-> 0, answer |-> "-OK"]

\* What the Binho bridge answers to the next call: "-OK" (for a data read,
\* the line with the bytes read) unless this is the call the bridge fails at.
BinhoAnswer(t) == IF Len(t.log) + 1 = t.failAt.at THEN t.failAt.answer ELSE "-OK"

_check_device_success(t, ret_str) ==
    IF ret_str = "-OK" THEN t
    ELSE IF ret_str = "-NG" THEN Raise(t, RuntimeError)
    ELSE Raise(t, RuntimeError)

\* One call of the bridge whose answer goes through _check_device_success.
Checked(t, call) ==
    Bind(t, LAMBDA c :
        IF c.err # NoError THEN c
        ELSE _check_device_success([c EXCEPT !.log = Append(@, call)], BinhoAnswer(c)))

\* The device stores a byte written to a writable register.
DeviceStore(t, register, value) ==
    Bind(t, LAMBDA c :
        IF c.err # NoError \/ register \notin RegAddrs \/ register \in ReadOnlyRegs
        THEN c
        ELSE [c EXCEPT !.regs[register] = value])

write_byte(t, register, value) ==
    LET t1 == Checked(t, <<"startI2C", WRITE_ADDR>>)
        t2 == Checked(t1, <<"writeByteI2C", register>>)
        t3 == DeviceStore(Checked(t2, <<"writeByteI2C", value>>), register, value)
    IN  Checked(t3, <<"endI2C", 0>>)

\* The bytes of byte_len sequential registers from addr on.
RECURSIVE DeviceBytes(_, _, _)
DeviceBytes(t, addr, byte_len) ==
    IF byte_len = 0 THEN <<>>
    ELSE Append(DeviceBytes(t, addr, byte_len - 1),
                IF addr + byte_len - 1 \in RegAddrs
                THEN t.regs[addr + byte_len - 1] ELSE 0)

\* Returns the list of bytes read in t.ret
read_byte(t, addr, byte_len) ==
    LET t1 == Checked(t, <<"startI2C", WRITE_ADDR>>)
        t2 == Checked(t1, <<"writeByteI2C", addr>>)
    IN  Bind(Checked(t2, <<"endI2C", 1>>), LAMBDA t3 :
            IF t3.err # NoError THEN t3
            ELSE LET ans == BinhoAnswer(t3)
                     t4 == [t3 EXCEPT !.log = Append(@, <<"readBytesI2C", byte_len>>)]
                 IN  IF ans = "-NG" THEN Raise(t4, RuntimeError)
                     ELSE IF ans = "-OK"
                          THEN Return(t4, DeviceBytes(t4, addr, byte_len))
                          \* int(i, 0) on an answer that holds no bytes
                          ELSE Raise(t4, ValueError))

\* The fault indicator: i2cbus.setLEDRGB(255, 0, 0); its answer is not checked.
setLEDRGB(t) ==
    Bind(t, LAMBDA c :
        IF c.err # NoError THEN c ELSE [c EXCEPT !.log = Append(@, <<"setLEDRGB", 255>>)])

----------------------------------------------------------------------------
(* Register codec and the typed getters/setters of the Device Controller.  *)
(* A getter leaves the decoded structure in t.ret.                         *)

\* A slip in the decoder: RDY and RDYVT tested with each other's mask.
status_decode_swapped(read_string) ==
    [EXCERR |-> TestBit(read_string, STATUS_EXCERR),
     RDY    |-> TestBit(read_string, STATUS_RDYVT),
     RDYVT  |-> TestBit(read_string, STATUS_RDY),
     RDYCAP |-> TestBit(read_string, STATUS_RDYCAP)]

status_decode(read_string) ==
    [EXCERR |-> TestBit(read_string, STATUS_EXCERR),
     RDY    |-> TestBit(read_string, STATUS_RDY),
     RDYVT  |-> TestBit(read_string, STATUS_RDYVT),
     RDYCAP |-> TestBit(read_string, STATUS_RDYCAP)]

status(t) ==
    Bind(read_byte(t, STATUS_ADDR, 1), LAMBDA r :
        IF r.err # NoError THEN r ELSE Return(r, status_decode(r.ret[1])))

\* A slip in the assembly: the three bytes taken low byte first.
cap_data_low_first(t) ==
    Bind(read_byte(t, CAP_DATA_H_ADDR, 3), LAMBDA r :
        IF r.err # NoError THEN r
        ELSE Return(r, Shl(r.ret[3], 16) + Shl(r.ret[2], 8) + r.ret[1]))

cap_data(t) ==
    Bind(read_byte(t, CAP_DATA_H_ADDR, 3), LAMBDA r :
        IF r.err # NoError THEN r
        ELSE Return(r, Shl(r.ret[1], 16) + Shl(r.ret[2], 8) + r.ret[3]))

cap_setup_decode(read_data) ==
    [CAPEN   |-> TestBit(read_data, CAP_SETUP_CAPEN),
     CIN2    |-> TestBit(read_data, CAP_SETUP_CIN2),
     CAPDIFF |-> TestBit(read_data, CAP_SETUP_CAPDIFF),
     CAPCHOP |-> TestBit(read_data, CAP_SETUP_CAPCHOP)]

cap_setup_get(t) ==
    Bind(read_byte(t, CAP_SETUP_ADDR, 1), LAMBDA r :
        IF r.err # NoError THEN r ELSE Return(r, cap_setup_decode(r.ret[1])))

cap_setup_value(val) ==
    AddIf(val.CAPEN, CAP_SETUP_CAPEN) + AddIf(val.CIN2, CAP_SETUP_CIN2)
    + AddIf(val.CAPDIFF, CAP_SETUP_CAPDIFF) + AddIf(val.CAPCHOP, CAP_SETUP_CAPCHOP)

cap_setup_set(t, val) == write_byte(t, CAP_SETUP_ADDR, cap_setup_value(val))

vt_setup_decode(read_string) ==
    [VTEN    |-> TestBit(read_string, VT_SETUP_VTEN),
     VTMD1   |-> TestBit(read_string, VT_SETUP_VTMD1),
     VTMD0   |-> TestBit(read_string, VT_SETUP_VTMD0),
     EXTREF  |-> TestBit(read_string, VT_SETUP_EXTREF),
     VTSHORT |-> TestBit(read_string, VT_SETUP_VTSHORT),
     VTCHOP  |-> TestBit(read_string, VT_SETUP_VTCHOP)]

vt_setup_get(t) ==
    Bind(read_byte(t, VT_SETUP_ADDR, 1), LAMBDA r :
        IF r.err # NoError THEN r ELSE Return(r, vt_setup_decode(r.ret[1])))

vt_setup_value(val) ==
    AddIf(val.VTEN, VT_SETUP_VTEN) + AddIf(val.VTMD1, VT_SETUP_VTMD1)
    + AddIf(val.VTMD0, VT_SETUP_VTMD0) + AddIf(val.EXTREF, VT_SETUP_EXTREF)
    + AddIf(val.VTSHORT, VT_SETUP_VTSHORT) + AddIf(val.VTCHOP, VT_SETUP_VTCHOP)

vt_setup_set(t, val) == write_byte(t, VT_SETUP_ADDR, vt_setup_value(val))

exc_setup_decode(read_string) ==
    [CLKCTRL |-> TestBit(read_string, EXC_SETUP_CLKCTRL),
     EXCON   |-> TestBit(read_string, EXC_SETUP_EXCON),
     EXCB    |-> TestBit(read_string, EXC_SETUP_EXCB),
     UEXCB   |-> TestBit(read_string, EXC_SETUP_UEXCB),
     EXCA    |-> TestBit(read_string, EXC_SETUP_EXCA),
     UEXCA   |-> TestBit(read_string, EXC_SETUP_UEXCA),
     EXCLVL1 |-> TestBit(read_string, EXC_SETUP_EXCLVL1),
     EXCLVL0 |-> TestBit(read_string, EXC_SETUP_EXCLVL0)]

exc_setup_get(t) ==
    Bind(read_byte(t, EXC_SETUP_ADDR, 1), LAMBDA r :
        IF r.err # NoError THEN r ELSE Return(r, exc_setup_decode(r.ret[1])))

exc_setup_value(val) ==
    AddIf(val.CLKCTRL, EXC_SETUP_CLKCTRL) + AddIf(val.EXCON, EXC_SETUP_EXCON)
    + AddIf(val.EXCB, EXC_SETUP_EXCB) + AddIf(val.UEXCB, EXC_SETUP_UEXCB)
    + AddIf(val.EXCA, EXC_SETUP_EXCA) + AddIf(val.UEXCA, EXC_SETUP_UEXCA)
    + AddIf(val.EXCLVL1, EXC_SETUP_EXCLVL1) + AddIf(val.EXCLVL0, EXC_SETUP_EXCLVL0)

exc_setup_set(t, val) == write_byte(t, EXC_SETUP_ADDR, exc_setup_value(val))

configuration_decode(read_string) ==
    [VTFS1  |-> TestBit(read_string, CONFIG_VTFS1),
     VTFS0  |-> TestBit(read_string, CONFIG_VTFS0),
     CAPFS2 |-> TestBit(read_string, CONFIG_CAPFS2),
     CAPFS1 |-> TestBit(read_string, CONFIG_CAPFS1),
     CAPFS0 |-> TestBit(read_string, CONFIG_CAPFS0),
     MD2    |-> TestBit(read_string, CONFIG_MD2),
     MD1    |-> TestBit(read_string, CONFIG_MD1),
     MD0    |-> TestBit(read_string, CONFIG_MD0)]

\* The getter reads three bytes from 0x0A on and decodes the first.
configuration_get(t) ==
    Bind(read_byte(t, CONFIG_ADDR, 3), LAMBDA r :
        IF r.err # NoError THEN r ELSE Return(r, configuration_decode(r.ret[1])))

\* A slip in the encoder: MD1 accumulated with the mask of MD0.
configuration_value_md_slip(val) ==
    AddIf(val.VTFS1, CONFIG_VTFS1) + AddIf(val.VTFS0, CONFIG_VTFS0)
    + AddIf(val.CAPFS2, CONFIG_CAPFS2) + AddIf(val.CAPFS1, CONFIG_CAPFS1)
    + AddIf(val.CAPFS0, CONFIG_CAPFS0) + AddIf(val.MD2, CONFIG_MD2)
    + AddIf(val.MD1, CONFIG_MD0) + AddIf(val.MD0, CONFIG_MD0)

configuration_value(val) ==
    AddIf(val.VTFS1, CONFIG_VTFS1) + AddIf(val.VTFS0, CONFIG_VTFS0)
    + AddIf(val.CAPFS2, CONFIG_CAPFS2) + AddIf(val.CAPFS1, CONFIG_CAPFS1)
    + AddIf(val.CAPFS0, CONFIG_CAPFS0) + AddIf(val.MD2, CONFIG_MD2)
    + AddIf(val.MD1, CONFIG_MD1) + AddIf(val.MD0, CONFIG_MD0)

configuration_set(t, val) == write_byte(t, CONFIG_ADDR, configuration_value(val))

(* The DAC-trim registers: val = [ENA |-> enable flag, code |-> 7-bit code] *)

cap_daca_get(t) ==
    Bind(read_byte(t, CAP_DAC_A_ADDR, 1), LAMBDA r :
        IF r.err # NoError THEN r
        ELSE Return(r, [DACAENA  |-> TestBit(r.ret[1], CAP_DAC_A_DACAENA),
                        DACA7bit |-> AndLow(r.ret[1], CAP_DAC_A_DACA7bit)]))

cap_daca_set(t, val) ==
    IF val.DACA7bit > 127 \/ val.DACA7bit < 0 THEN Raise(t, ValueError)
    ELSE IF val.DACAENA
         THEN write_byte(t, CAP_DAC_A_ADDR, BitOr(Shl(1, 7), val.DACA7bit))
         ELSE write_byte(t, CAP_DAC_A_ADDR, val.DACA7bit)

cap_dacb_get(t) ==
    Bind(read_byte(t, CAP_DAC_B_ADDR, 1), LAMBDA r :
        IF r.err # NoError THEN r
        ELSE Return(r, [DACBENB  |-> TestBit(r.ret[1], CAP_DAC_B_DACBENB),
                        DACB7bit |-> AndLow(r.ret[1], CAP_DAC_B_DACB7bit)]))

cap_dacb_set(t, val) ==
    IF val.DACB7bit > 177 \/ val.DACB7bit < 0 THEN Raise(t, ValueError)
    ELSE IF val.DACBENB
         THEN write_byte(t, CAP_DAC_B_ADDR, BitOr(Shl(1, 7), val.DACB7bit))
         ELSE write_byte(t, CAP_DAC_B_ADDR, val.DACB7bit)

----------------------------------------------------------------------------
(* Acquisition: get_raw_cap_val.                                           *)

\* Lines 861-866: when not in continuous mode, rewrite the mode
\* configuration to single-shot conversion.  (start_time is then read from
\* the clock, t.now.)
acq_enter(t, cc) ==
    IF cc THEN t
    ELSE Bind(configuration_get(t), LAMBDA c :
             IF c.err # NoError THEN c
             ELSE LET conf == [c.ret EXCEPT !.MD0 = FALSE, !.MD1 = TRUE, !.MD2 = FALSE]
                  IN  Return(configuration_set(c, conf), None))

\* A slip in the timeout test: >= where the code has >.
acq_poll_at_timeout(t, st, to) ==
    Bind(status(t), LAMBDA s :
        IF s.err # NoError THEN s
        ELSE IF s.ret.RDYCAP = FALSE THEN cap_data(s)
        ELSE IF s.ret.EXCERR THEN Raise(setLEDRGB(s), ExcitationError)
        ELSE IF s.now - st >= to THEN Raise(setLEDRGB(s), TimeoutError)
        ELSE [s EXCEPT !.ret = None, !.loop = TRUE])

\* The polling loop without its timeout test.
acq_poll_no_timeout(t, st, to) ==
    Bind(status(t), LAMBDA s :
        IF s.err # NoError THEN s
        ELSE IF s.ret.RDYCAP = FALSE THEN cap_data(s)
        ELSE IF s.ret.EXCERR THEN Raise(setLEDRGB(s), ExcitationError)
        ELSE [s EXCEPT !.ret = None, !.loop = TRUE])

\* Lines 869-881: one iteration of the polling loop.  The call has ended
\* with a return value or an exception unless the result has loop set.
acq_poll(t, st, to) ==
    Bind(status(t), LAMBDA s :
        IF s.err # NoError THEN s
        ELSE IF s.ret.RDYCAP = FALSE THEN cap_data(s)
        ELSE IF s.ret.EXCERR THEN Raise(setLEDRGB(s), ExcitationError)
        ELSE IF s.now - st > to THEN Raise(setLEDRGB(s), TimeoutError)
        ELSE [s EXCEPT !.ret = None, !.loop = TRUE])

AcqEnded(t) == t.err # NoError \/ ~t.loop

----------------------------------------------------------------------------
(* cap_input and cap_filter                                                *)

CapInput == {"CAP1_EXC1", "CAP2_EXC2", "CAP_DIFF_CIN1", "CAP_DIFF_CIN2"}

CapFilter ==
    {"CONV87Hz", "CONV79Hz", "CONV44Hz", "CONV22Hz",
     "CONV14Hz", "CONV11Hz", "CONV9Hz", "CONV8Hz"}

\* A value that is no member of either enumeration.
NotAnEnum == "not-an-enum-member"

\* The cap_setup_reg each branch of cap_input writes.
cap_input_cap_setup(input_setting) ==
    [CAPEN   |-> TRUE,
     CIN2    |-> input_setting \in {"CAP2_EXC2", "CAP_DIFF_CIN2"},
     CAPDIFF |-> FALSE,
     CAPCHOP |-> FALSE]

\* The exc_setup_reg each branch of cap_input writes.
cap_input_exc_setup(input_setting) ==
    [CLKCTRL |-> FALSE,
     EXCON   |-> FALSE,
     EXCB    |-> input_setting = "CAP2_EXC2",
     UEXCB   |-> input_setting \in {"CAP_DIFF_CIN1", "CAP_DIFF_CIN2"},
     EXCA    |-> input_setting # "CAP2_EXC2",
     UEXCA   |-> FALSE,
     EXCLVL1 |-> TRUE,
     EXCLVL0 |-> TRUE]

\* The mode bits each branch of cap_input puts into conf_val: continuous
\* conversion, except that the last branch alone honours cont_conv.
cap_input_conf(conf_val, input_setting, cc) ==
    IF input_setting = "CAP_DIFF_CIN2" /\ ~cc
    THEN [conf_val EXCEPT !.MD0 = FALSE, !.MD1 = TRUE, !.MD2 = FALSE]
    ELSE [conf_val EXCEPT !.MD0 = TRUE, !.MD1 = FALSE, !.MD2 = FALSE]

cap_input(t, input_setting, cc) ==
    Bind(configuration_get(t), LAMBDA c :
        IF c.err # NoError THEN c
        ELSE IF input_setting \in CapInput
        THEN LET conf_val == c.ret
                 t1 == cap_setup_set(c, cap_input_cap_setup(input_setting))
                 t2 == exc_setup_set(t1, cap_input_exc_setup(input_setting))
                 t3 == configuration_set(t2, cap_input_conf(conf_val, input_setting, cc))
             IN  Return(t3, None)
        ELSE Raise(c, ValueError))

\* The (CAPFS2, CAPFS1, CAPFS0) triple of each filter setting.
cap_filter_bits(filter_setting) ==
    CASE filter_setting = "CONV87Hz" -> <<FALSE, FALSE, FALSE>>
      [] filter_setting = "CONV79Hz" -> <<FALSE, FALSE, TRUE>>
      [] filter_setting = "CONV44Hz" -> <<FALSE, TRUE, FALSE>>
      [] filter_setting = "CONV22Hz" -> <<FALSE, TRUE, TRUE>>
      [] filter_setting = "CONV14Hz" -> <<TRUE, FALSE, FALSE>>
      [] filter_setting = "CONV11Hz" -> <<TRUE, FALSE, TRUE>>
      [] filter_setting = "CONV9Hz"  -> <<TRUE, TRUE, FALSE>>
      [] filter_setting = "CONV8Hz"  -> <<TRUE, TRUE, TRUE>>

\* The filter selection written over the idle configuration of the
\* constructor instead of over the configuration read.
cap_filter_over_idle(t, filter_setting) ==
    Bind(configuration_get(t), LAMBDA c :
        IF c.err # NoError THEN c
        ELSE IF filter_setting \in CapFilter
        THEN LET conf_val == [VTFS1 |-> TRUE, VTFS0 |-> TRUE, CAPFS2 |-> TRUE,
                              CAPFS1 |-> TRUE, CAPFS0 |-> TRUE, MD2 |-> FALSE,
                              MD1 |-> FALSE, MD0 |-> FALSE]
                 b == cap_filter_bits(filter_setting)
                 new == [conf_val EXCEPT !.CAPFS2 = b[1], !.CAPFS1 = b[2], !.CAPFS0 = b[3]]
             IN  Return(configuration_set(c, new), None)
        ELSE Raise(c, ValueError))

cap_filter(t, filter_setting) ==
    Bind(configuration_get(t), LAMBDA c :
        IF c.err # NoError THEN c
        ELSE IF filter_setting \in CapFilter
        THEN LET conf_val == c.ret
                 b == cap_filter_bits(filter_setting)
                 new == [conf_val EXCEPT !.CAPFS2 = b[1], !.CAPFS1 = b[2], !.CAPFS0 = b[3]]
             IN  Return(configuration_set(c, new), None)
        ELSE Raise(c, ValueError))

----------------------------------------------------------------------------
(* Construction                                                            *)

set_clock(t, freq) ==
    IF ~(0 <= freq /\ freq <= 400000) THEN Raise(t, ValueError)
    ELSE Checked(t, <<"setClockI2C", freq>>)

\* The register file of the chip at power-on (the default values the
\* register docstrings give; the gain registers are factory values).
PowerOnRegs ==
    [a \in RegAddrs |->
        CASE a = STATUS_ADDR       -> 7
          [] a = EXC_SETUP_ADDR    -> 3
          [] a = CONFIG_ADDR       -> 160
          [] a = CAP_OFFSET_H_ADDR -> 128
          [] OTHER                 -> 0]

\* vt_setup_reg(VTEN=False): every field at its default, False.
init_vt_setup ==
    [VTEN |-> FALSE, VTMD1 |-> FALSE, VTMD0 |-> FALSE,
     EXTREF |-> FALSE, VTSHORT |-> FALSE, VTCHOP |-> FALSE]

\* "Configure for idle, slow read time"
init_configuration ==
    [VTFS1 |-> TRUE, VTFS0 |-> TRUE, CAPFS2 |-> TRUE, CAPFS1 |-> TRUE,
     CAPFS0 |-> TRUE, MD2 |-> FALSE, MD1 |-> FALSE, MD0 |-> FALSE]

\* The constructor with its two register writes in the other order.
init_configuration_first(t) ==
    LET t1 == [t EXCEPT !.log = @ \o << <<"setOperationMode", I2C_INDEX>>,
                                        <<"setPullUpStateI2C", 1>> >>]
        t2 == set_clock(t1, 400000)
        t3 == configuration_set(t2, init_configuration)
    IN  vt_setup_set(t3, init_vt_setup)

\* AD7745.__init__: bus set-up, then the two register writes.
init(t) ==
    LET t1 == [t EXCEPT !.log = @ \o << <<"setOperationMode", I2C_INDEX>>,
                                        <<"setPullUpStateI2C", 1>> >>]
        t2 == set_clock(t1, 400000)
        t3 == vt_setup_set(t2, init_vt_setup)
    IN  configuration_set(t3, init_configuration)

\* What the device has answered to the status reads of an acquisition, before
\* the first of them: allExc, every status read showed the excitation fault;
\* quiet, every status read showed neither data ready nor the excitation
\* fault; firstReady, the first status read showed capacitance data ready;
\* status, the status byte last read (-1: none yet); sample, the conversion
\* result the device held in its capacitance data registers at that read;
\* polls, the number of status reads.
NoPolls ==
    [allExc |-> TRUE, quiet |-> TRUE, firstReady |-> FALSE, status |-> -1, sample |-> 0,
     polls |-> 0]

\* The four bitfield register groups, by address.
GroupAddrs == {CAP_SETUP_ADDR, VT_SETUP_ADDR, EXC_SETUP_ADDR, CONFIG_ADDR}

\* The state right after a successful construction on a freshly powered
\* device; the specifications add what they draw at the start.
Constructed ==
    LET t == init([regs |-> PowerOnRegs, log |-> <<>>, err |-> NoError,
                   ret |-> None, now |-> 0, loop |-> FALSE, failAt |-> NoFault])
    IN  /\ regs = t.regs
        /\ log = t.log
        /\ err = t.err
        /\ ret = NoResult
        /\ now = 0
        /\ op = "__init__"
        /\ pc = "idle"
        /\ cont_conv = TRUE
        /\ _cap_dac_lsb = <<>>
        /\ closes = 0
        /\ alive = TRUE
        /\ start_time = 0
        /\ timeout = 0
        /\ failAt = NoFault
        /\ start = 0
        /\ st_val = 0
        /\ entryMode = 0
        /\ arg = Called("__init__", None)
        /\ hist = NoPolls
        /\ shadow = [a \in GroupAddrs |->
                        CASE a = VT_SETUP_ADDR -> [set |-> TRUE, val |-> init_vt_setup]
                          [] a = CONFIG_ADDR   -> [set |-> TRUE, val |-> init_configuration]
                          [] OTHER             -> [set |-> FALSE, val |-> None]]

\* A call that runs to its end in one step: what it leaves behind.  The locals
\* of an earlier acquisition (start_time, timeout) and what was recorded of it
\* are gone.
Commit(t, o, a) ==
    /\ regs' = t.regs
    /\ log' = t.log
    /\ err' = t.err
    /\ ret' = Result(t, o)
    /\ now' = t.now
    /\ op' = o
    /\ arg' = Called(o, a)
    /\ pc' = "idle"
    /\ start_time' = 0
    /\ timeout' = 0
    /\ entryMode' = 0
    /\ hist' = NoPolls

\* The driver can be called: no call is in progress, the instance exists
\* and its transport has not been closed.
Callable == pc = "idle" /\ alive /\ closes = 0

----------------------------------------------------------------------------
(* The register-group getters and setters as operations.                   *)

\* The setter of the group at addr, called with the structure the caller
\* holds for that group.
GroupSet(addr) ==
    /\ Callable
    /\ given.addr = addr
    /\ shadow' = [shadow EXCEPT ![addr] = [set |-> TRUE, val |-> given.val]]
    /\ UNCHANGED <<cont_conv, _cap_dac_lsb, closes, alive, failAt, given, start,
                   st_val, zeroFrom, satBelow>>

GroupGet ==
    /\ Callable
    /\ UNCHANGED <<cont_conv, _cap_dac_lsb, closes, alive, failAt, given, shadow,
                   start, st_val, zeroFrom, satBelow>>

CapSetupSet ==
    /\ GroupSet(CAP_SETUP_ADDR)
    /\ Commit(cap_setup_set(Entry, given.val), "cap_setup.setter", given.val)

CapSetupGet == GroupGet /\ Commit(cap_setup_get(Entry), "cap_setup", None)

VtSetupSet ==
    /\ GroupSet(VT_SETUP_ADDR)
    /\ Commit(vt_setup_set(Entry, given.val), "vt_setup.setter", given.val)

VtSetupGet == GroupGet /\ Commit(vt_setup_get(Entry), "vt_setup", None)

ExcSetupSet ==
    /\ GroupSet(EXC_SETUP_ADDR)
    /\ Commit(exc_setup_set(Entry, given.val), "exc_setup.setter", given.val)

ExcSetupGet == GroupGet /\ Commit(exc_setup_get(Entry), "exc_setup", None)

ConfigurationSet ==
    /\ GroupSet(CONFIG_ADDR)
    /\ Commit(configuration_set(Entry, given.val), "configuration.setter", given.val)

ConfigurationGet == GroupGet /\ Commit(configuration_get(Entry), "configuration", None)

\* Every structure of every group: the inputs of the codec.
GroupStructs(addr) ==
    CASE addr = CAP_SETUP_ADDR -> cap_setup_reg
      [] addr = VT_SETUP_ADDR  -> vt_setup_reg
      [] addr = EXC_SETUP_ADDR -> exc_setup_reg
      [] addr = CONFIG_ADDR    -> configuration_reg

\* No structure is held (the specifications that write none).
NoneGiven == [addr |-> -1, val |-> None]

InitCodec ==
    /\ Constructed
    /\ \E a \in GroupAddrs : \E val \in GroupStructs(a) : given = [addr |-> a, val |-> val]
    /\ zeroFrom = 0
    /\ satBelow = 0

NextCodec ==
    \/ CapSetupSet
    \/ CapSetupGet
    \/ VtSetupSet
    \/ VtSetupGet
    \/ ExcSetupSet
    \/ ExcSetupGet
    \/ ConfigurationSet
    \/ ConfigurationGet

SpecCodec == InitCodec /\ [][NextCodec]_vars

----------------------------------------------------------------------------
(* Reading the transport log at the register level.                        *)

\* Positions where a register write begins: start, register, value.
RegWritePositions(l) ==
    {i \in 1 .. Len(l) - 2 :
        /\ l[i][1] = "startI2C"
        /\ l[i + 1][1] = "writeByteI2C"
        /\ l[i + 2][1] = "writeByteI2C"}

\* Positions where a register read begins: start, address, repeated start.
RegReadPositions(l) ==
    {i \in 1 .. Len(l) - 2 :
        /\ l[i][1] = "startI2C"
        /\ l[i + 1][1] = "writeByteI2C"
        /\ l[i + 2] = <<"endI2C", 1>>}

\* The <<register, value>> pairs written, as a set.
RegWrites(l) == {<<l[i + 1][2], l[i + 2][2]>> : i \in RegWritePositions(l)}

\* The register the read or write beginning at position i is addressed to.
l_addr(l, i) == l[i + 1][2]

\* The registers a read was addressed to, as a set.
RegReads(l) == {l[i + 1][2] : i \in RegReadPositions(l)}

\* The bitwise OR of the masks of the fields of S that are true.
RECURSIVE OrOfFields(_, _, _)
OrOfFields(S, masks, fields) ==
    IF fields = {} THEN 0
    ELSE LET f == CHOOSE x \in fields : TRUE
         IN  BitOr(IF S[f] THEN masks[f] ELSE 0, OrOfFields(S, masks, fields \ {f}))

GroupMasks(addr) ==
    CASE addr = CAP_SETUP_ADDR ->
            [CAPEN |-> CAP_SETUP_CAPEN, CIN2 |-> CAP_SETUP_CIN2,
             CAPDIFF |-> CAP_SETUP_CAPDIFF, CAPCHOP |-> CAP_SETUP_CAPCHOP]
      [] addr = VT_SETUP_ADDR ->
            [VTEN |-> VT_SETUP_VTEN, VTMD1 |-> VT_SETUP_VTMD1, VTMD0 |-> VT_SETUP_VTMD0,
             EXTREF |-> VT_SETUP_EXTREF, VTSHORT |-> VT_SETUP_VTSHORT,
             VTCHOP |-> VT_SETUP_VTCHOP]
      [] addr = EXC_SETUP_ADDR ->
            [CLKCTRL |-> EXC_SETUP_CLKCTRL, EXCON |-> EXC_SETUP_EXCON,
             EXCB |-> EXC_SETUP_EXCB, UEXCB |-> EXC_SETUP_UEXCB,
             EXCA |-> EXC_SETUP_EXCA, UEXCA |-> EXC_SETUP_UEXCA,
             EXCLVL1 |-> EXC_SETUP_EXCLVL1, EXCLVL0 |-> EXC_SETUP_EXCLVL0]
      [] addr = CONFIG_ADDR ->
            [VTFS1 |-> CONFIG_VTFS1, VTFS0 |-> CONFIG_VTFS0, CAPFS2 |-> CONFIG_CAPFS2,
             CAPFS1 |-> CONFIG_CAPFS1, CAPFS0 |-> CONFIG_CAPFS0, MD2 |-> CONFIG_MD2,
             MD1 |-> CONFIG_MD1, MD0 |-> CONFIG_MD0]

GetterOf(addr) ==
    CASE addr = CAP_SETUP_ADDR -> "cap_setup"
      [] addr = VT_SETUP_ADDR  -> "vt_setup"
      [] addr = EXC_SETUP_ADDR -> "exc_setup"
      [] addr = CONFIG_ADDR    -> "configuration"

SetterOf(addr) ==
    CASE addr = CAP_SETUP_ADDR -> "cap_setup.setter"
      [] addr = VT_SETUP_ADDR  -> "vt_setup.setter"
      [] addr = EXC_SETUP_ADDR -> "exc_setup.setter"
      [] addr = CONFIG_ADDR    -> "configuration.setter"

\* C10: for each of the four bitfield register groups and every combination
\* S of its boolean fields, the getter called after the setter was given S
\* (the device storing the written byte) returns a structure equal to S, and
\* the setter issues one register write, to the group's register, of the byte
\* that is the bitwise OR of the masks of the fields of S that are true.
C10_RoundTrip ==
    \A g \in GroupAddrs :
        /\ (op = GetterOf(g) /\ shadow[g].set) => (err = NoError /\ ret.val = shadow[g].val)
        /\ op = SetterOf(g) =>
              /\ err = NoError
              /\ RegWrites(log) = {<<g, OrOfFields(arg.val, GroupMasks(g), DOMAIN GroupMasks(g))>>}
              /\ Cardinality(RegWritePositions(log)) = 1

\* A structure with true and false fields was written to the mode
\* configuration and read back.
C10_Witness ==
    /\ op = "configuration"
    /\ shadow[CONFIG_ADDR].set
    /\ shadow[CONFIG_ADDR].val = [VTFS1 |-> FALSE, VTFS0 |-> TRUE, CAPFS2 |-> TRUE,
                                  CAPFS1 |-> FALSE, CAPFS0 |-> FALSE, MD2 |-> FALSE,
                                  MD1 |-> TRUE, MD0 |-> FALSE]
    /\ err = NoError
    /\ ret.val = shadow[CONFIG_ADDR].val

----------------------------------------------------------------------------
(* The acquisition as a process: entry, then one step per iteration of the *)
(* polling loop.  To each status read the device (the environment) answers *)
(* with a status byte and holds the data of its last conversion; the       *)
(* status and data registers are the device's answers, not stored state.   *)
(* Wall-clock time passes between the reads of the clock.                  *)

\* Bounds of the acquisition model.
MaxNow == 3
MaxDt == 1
MaxTimeout == 1
MaxPolls == 2

\* The status bytes the device may show: bits 3..0, the upper bits read 0.
StatusBytes == 0 .. 15

\* 24-bit conversion results the simulated device produces.
CapSamples == {66051, 8388608, 16777215}

\* The device before a status read: it shows status byte s and holds sample
\* in the capacitance data registers; dt of wall-clock time has passed.
DeviceStep(t, s, sample, dt) ==
    [t EXCEPT !.regs[STATUS_ADDR] = s,
              !.regs[CAP_DATA_H_ADDR] = Shr(sample, 16) % 256,
              !.regs[CAP_DATA_M_ADDR] = Shr(sample, 8) % 256,
              !.regs[CAP_DATA_L_ADDR] = sample % 256,
              !.now = @ + dt]

\* The registers as the driver's writes left them: the device-driven ones
\* are not kept.
Stored(t) ==
    [t.regs EXCEPT ![STATUS_ADDR] = regs[STATUS_ADDR],
                   ![CAP_DATA_H_ADDR] = regs[CAP_DATA_H_ADDR],
                   ![CAP_DATA_M_ADDR] = regs[CAP_DATA_M_ADDR],
                   ![CAP_DATA_L_ADDR] = regs[CAP_DATA_L_ADDR]]

\* The number of status reads in a log.
StatusReads(l) == Cardinality({i \in RegReadPositions(l) : l[i + 1][2] = STATUS_ADDR})

\* The caller assigns the public attribute cont_conv.
SetContConv ==
    /\ Callable
    /\ cont_conv' = ~cont_conv
    /\ Commit(Entry, "cont_conv", ~cont_conv)
    /\ UNCHANGED <<_cap_dac_lsb, closes, alive, failAt, given, start, st_val,
                   zeroFrom, satBelow, shadow>>

\* get_raw_cap_val(timeout=T) up to the first status read.
AcqEnter ==
    /\ Callable
    /\ \E T \in 0 .. MaxTimeout :
        LET t == acq_enter(Entry, cont_conv)
        IN  /\ regs' = t.regs
            /\ log' = t.log
            /\ err' = t.err
            /\ ret' = NoResult
            /\ now' = t.now
            /\ op' = "get_raw_cap_val"
            /\ arg' = Called("get_raw_cap_val", T)
            /\ pc' = IF t.err # NoError THEN "idle" ELSE "poll"
            /\ timeout' = T
            /\ start_time' = t.now
            /\ entryMode' = regs[CONFIG_ADDR] % 8
            /\ hist' = NoPolls
    /\ UNCHANGED <<cont_conv, _cap_dac_lsb, closes, alive, failAt, given,
                   start, st_val, zeroFrom, satBelow, shadow>>

\* One iteration of the polling loop of get_raw_cap_val.
AcqPoll ==
    /\ pc = "poll"
    /\ hist.polls < MaxPolls
    /\ \E s \in StatusBytes, dt \in 0 .. MaxDt :
        \E sample \in IF TestBit(s, STATUS_RDYCAP) THEN {hist.sample} ELSE CapSamples :
            LET t == acq_poll(DeviceStep(Resume, s, sample, dt), start_time, timeout)
            IN  /\ now + dt <= MaxNow
                /\ regs' = Stored(t)
                /\ log' = t.log
                /\ err' = t.err
                /\ ret' = IF AcqEnded(t) THEN Result(t, "get_raw_cap_val") ELSE NoResult
                /\ now' = t.now
                /\ pc' = IF AcqEnded(t) THEN "idle" ELSE "poll"
                /\ hist' = [allExc     |-> hist.allExc /\ TestBit(s, STATUS_EXCERR),
                            quiet      |-> /\ hist.quiet
                                           /\ TestBit(s, STATUS_RDYCAP)
                                           /\ ~TestBit(s, STATUS_EXCERR),
                            firstReady |-> IF hist.polls = 0
                                           THEN ~TestBit(s, STATUS_RDYCAP)
                                           ELSE hist.firstReady,
                            status     |-> s,
                            sample     |-> sample,
                            polls      |-> hist.polls + 1]
    /\ UNCHANGED <<cont_conv, _cap_dac_lsb, closes, alive, op, arg, start_time,
                   timeout, failAt, given, start, st_val, zeroFrom, satBelow,
                   entryMode, shadow>>

\* The input settings the acquisition model configures the device with.
AcqInputs == {"CAP1_EXC1", "CAP_DIFF_CIN2"}

\* cap_input(input_setting) ahead of an acquisition.
AcqCapInput ==
    /\ Callable
    /\ \E input_setting \in AcqInputs :
        Commit(cap_input(Entry, input_setting, cont_conv), "cap_input", input_setting)
    /\ UNCHANGED <<cont_conv, _cap_dac_lsb, closes, alive, failAt, given, start,
                   st_val, zeroFrom, satBelow, shadow>>

InitAcq == Constructed /\ given = NoneGiven /\ zeroFrom = 0 /\ satBelow = 0

NextAcq ==
    \/ SetContConv
    \/ AcqCapInput
    \/ AcqEnter
    \/ AcqPoll

SpecAcq == InitAcq /\ [][NextAcq]_vars

----------------------------------------------------------------------------
(* Properties of the acquisition (checked under SpecAcq)                   *)

\* An acquisition is in progress or was the last call.
InAcq == op = "get_raw_cap_val"

\* The transport calls of one register read of byte_len bytes at addr.
ReadCalls(addr, byte_len) ==
    << <<"startI2C", WRITE_ADDR>>, <<"writeByteI2C", addr>>, <<"endI2C", 1>>,
       <<"readBytesI2C", byte_len>> >>

\* The last n entries of a log.
LastCalls(l, n) == IF Len(l) < n THEN <<>> ELSE SubSeq(l, Len(l) - n + 1, Len(l))

\* C1: when every status read shows the excitation fault (bit 3), whatever the
\* other status bits are, get_raw_cap_val raises the hardware-fault error
\* after the very first status read and never reads the capacitance data
\* registers.
C1_FaultOnFirstRead ==
    (InAcq /\ hist.polls >= 1 /\ hist.allExc) =>
        /\ pc = "idle"
        /\ err = ExcitationError
        /\ StatusReads(log) = 1
        /\ CAP_DATA_H_ADDR \notin RegReads(log)

\* The acquisition with wall-clock time advancing between the polls and the
\* polling loop running on: a call is begun while the clock leaves room for
\* its timeout to pass.
NextAcqLive ==
    \/ SetContConv
    \/ AcqEnter /\ now' + timeout' + 1 <= MaxNow
    \/ AcqPoll /\ now' > now

SpecAcqLive == InitAcq /\ [][NextAcqLive]_vars /\ WF_vars(AcqPoll /\ now' > now)

\* The last transport call of the log is the fault indicator.
IndicatorLast == Len(log) >= 1 /\ log[Len(log)] = <<"setLEDRGB", 255>>

\* C22: every call of get_raw_cap_val ends, in one of three ways: a sample
\* is returned, or the hardware-fault error is raised, or the timeout error
\* is raised; in the two error endings the fault indicator is the last
\* transport call, made after the last status read; and a call begins with
\* no poll made and its start time read from the clock at that moment.
C22_CallEnds ==
    /\ (InAcq /\ pc = "poll") ~> (InAcq /\ pc = "idle")
    /\ []((InAcq /\ pc = "idle") =>
            \/ err = NoError /\ ret.op = "get_raw_cap_val" /\ ret.val \in 0 .. 16777215
            \/ err = ExcitationError /\ ret = NoResult /\ IndicatorLast
            \/ err = TimeoutError /\ ret = NoResult /\ IndicatorLast)
    /\ [][(pc = "idle" /\ pc' = "poll") =>
            (start_time' = now' /\ hist' = NoPolls /\ err' = NoError /\ ret' = NoResult)]_vars

\* A second call, begun later than the first, has ended in the timeout
\* error after two polls.
C22_Witness ==
    /\ InAcq
    /\ pc = "idle"
    /\ err = TimeoutError
    /\ start_time >= 1
    /\ hist.polls = 2
    /\ IndicatorLast

\* C5: while every status read shows neither data ready nor the excitation
\* fault, get_raw_cap_val(timeout=T) raises the timeout error at the first
\* poll where the time elapsed since the loop began exceeds T and goes on
\* polling at every poll where it is <= T; it never returns a sample.
C5_TimeoutExact ==
    (InAcq /\ hist.polls >= 1 /\ hist.quiet) =>
        IF now - start_time > timeout
        THEN pc = "idle" /\ err = TimeoutError
        ELSE pc = "poll" /\ err = NoError

\* The timeout is raised at the second poll, the first having found the
\* elapsed time within T.
C5_Witness ==
    /\ InAcq
    /\ hist.quiet
    /\ hist.polls = 2
    /\ timeout = 1
    /\ now - start_time = 2
    /\ err = TimeoutError

C7_SingleShotOnEntry ==
    (InAcq /\ entryMode # 1) =>
        \E i \in RegWritePositions(log) :
            /\ log[i + 1][2] = CONFIG_ADDR
            /\ log[i + 2][2] % 8 = 2
            /\ \A j \in RegReadPositions(log) : log[j + 1][2] = STATUS_ADDR => i < j

----------------------------------------------------------------------------
(* The DAC-trim setters and getters and the shutdown path as operations.   *)

\* The DAC codes the callers of the model pass: below, at and above the ends
\* of the 7-bit range, and around the limit the DAC-B setter tests.
DacCodes == {-1, 0, 1, 127, 128, 150, 177, 178}

\* How many explicit close() calls a run makes at most.
MaxCloseCalls == 2

CapDacaSet ==
    /\ Callable
    /\ \E ena \in BOOLEAN, code \in DacCodes :
        LET val == [DACAENA |-> ena, DACA7bit |-> code]
        IN  Commit(cap_daca_set(Entry, val), "cap_daca.setter", val)
    /\ UNCHANGED <<cont_conv, _cap_dac_lsb, closes, alive, failAt, given, start,
                   st_val, zeroFrom, satBelow, shadow>>

CapDacaGet ==
    /\ Callable
    /\ Commit(cap_daca_get(Entry), "cap_daca", None)
    /\ UNCHANGED <<cont_conv, _cap_dac_lsb, closes, alive, failAt, given, start,
                   st_val, zeroFrom, satBelow, shadow>>

CapDacbSet ==
    /\ Callable
    /\ \E ena \in BOOLEAN, code \in DacCodes :
        LET val == [DACBENB |-> ena, DACB7bit |-> code]
        IN  Commit(cap_dacb_set(Entry, val), "cap_dacb.setter", val)
    /\ UNCHANGED <<cont_conv, _cap_dac_lsb, closes, alive, failAt, given, start,
                   st_val, zeroFrom, satBelow, shadow>>

CapDacbGet ==
    /\ Callable
    /\ Commit(cap_dacb_get(Entry), "cap_dacb", None)
    /\ UNCHANGED <<cont_conv, _cap_dac_lsb, closes, alive, failAt, given, start,
                   st_val, zeroFrom, satBelow, shadow>>

\* AD7745.close: self.i2cbus.close(), whatever was closed before.
close(t) == [t EXCEPT !.log = Append(@, <<"close", 0>>)]

\* An explicit close() call.
Close ==
    /\ pc = "idle"
    /\ alive
    /\ closes < MaxCloseCalls
    /\ closes' = closes + 1
    /\ Commit(close(Entry), "close", None)
    /\ UNCHANGED <<cont_conv, _cap_dac_lsb, alive, failAt, given, start, st_val,
                   zeroFrom, satBelow, shadow>>

\* The instance is destroyed: __del__ calls close().
Del ==
    /\ pc = "idle"
    /\ alive
    /\ alive' = FALSE
    /\ closes' = closes + 1
    /\ Commit(close(Entry), "__del__", None)
    /\ UNCHANGED <<cont_conv, _cap_dac_lsb, failAt, given, start, st_val,
                   zeroFrom, satBelow, shadow>>

Init == Constructed /\ given = NoneGiven /\ zeroFrom = 0 /\ satBelow = 0

Next ==
    \/ CapDacaSet
    \/ CapDacaGet
    \/ CapDacbSet
    \/ CapDacbGet
    \/ Close
    \/ Del

Spec == Init /\ [][Next]_vars

\* C2: for DAC trim A and DAC trim B alike, for every code c < 0 or c > 127
\* and either value of the enable flag, the setter fails validation and
\* issues no transport call, so no byte reaches register 0x0B or 0x0C.
C2_BadCodeNoWrite ==
    /\ (op = "cap_daca.setter" /\ (arg.val.DACA7bit < 0 \/ arg.val.DACA7bit > 127)) =>
          (err = ValueError /\ log = <<>>)
    /\ (op = "cap_dacb.setter" /\ (arg.val.DACB7bit < 0 \/ arg.val.DACB7bit > 127)) =>
          (err = ValueError /\ log = <<>>)

\* C13: a successful construction has enabled the pull-ups and set the bus
\* clock to 400000 before any register is written, and has then written
\* register 0x08 with the channel-enable bit (bit 7) clear and after it
\* register 0x0A with MD2..MD0 = 000 and all five filter bits set; these are
\* the only two register writes.
C13_ConstructionSequence ==
    (op = "__init__" /\ err = NoError) =>
        \E p, c, w1, w2 \in DOMAIN log :
            /\ log[p] = <<"setPullUpStateI2C", 1>>
            /\ log[c] = <<"setClockI2C", 400000>>
            /\ p < w1 /\ c < w1 /\ w1 < w2
            /\ RegWritePositions(log) = {w1, w2}
            /\ l_addr(log, w1) = 8
            /\ (log[w1 + 2][2] \div 128) % 2 = 0
            /\ l_addr(log, w2) = 10
            /\ log[w2 + 2][2] % 8 = 0
            /\ log[w2 + 2][2] \div 8 = 31

\* The instance as the constructor leaves it, the device holding the two
\* values written.
C13_Witness ==
    /\ op = "__init__"
    /\ err = NoError
    /\ Cardinality(RegWritePositions(log)) = 2
    /\ regs[8] = 0
    /\ regs[10] = 248
    /\ closes = 0

\* C8: over any sequence of close() calls and instance destruction the
\* transport's close is invoked at most once (exactly once by the time the
\* instance is destroyed).
C8_ClosedOnce == closes <= 1 /\ (~alive => closes = 1)

----------------------------------------------------------------------------
(* The input-routing and filter selection calls as operations, with        *)
(* members of the enumerations and with a value that is no member.         *)

CapInputCall ==
    /\ Callable
    /\ \E input_setting \in CapInput \cup {NotAnEnum} :
        Commit(cap_input(Entry, input_setting, cont_conv), "cap_input", input_setting)
    /\ UNCHANGED <<cont_conv, _cap_dac_lsb, closes, alive, failAt, given, start,
                   st_val, zeroFrom, satBelow, shadow>>

CapFilterCall ==
    /\ Callable
    /\ \E filter_setting \in CapFilter \cup {NotAnEnum} :
        Commit(cap_filter(Entry, filter_setting), "cap_filter", filter_setting)
    /\ UNCHANGED <<cont_conv, _cap_dac_lsb, closes, alive, failAt, given, start,
                   st_val, zeroFrom, satBelow, shadow>>

\* Configurations the caller assigns through the configuration setter: the
\* idle one of the constructor with other voltage filter and MD2 bits.
ConfValues ==
    {[init_configuration EXCEPT !.VTFS1 = a, !.VTFS0 = b, !.MD2 = c] :
        a \in BOOLEAN, b \in BOOLEAN, c \in BOOLEAN}

ConfigurationCall ==
    /\ Callable
    /\ \E val \in ConfValues :
        Commit(configuration_set(Entry, val), "configuration.setter", val)
    /\ UNCHANGED <<cont_conv, _cap_dac_lsb, closes, alive, failAt, given, start,
                   st_val, zeroFrom, satBelow, shadow>>

InitInput == Constructed /\ given = NoneGiven /\ zeroFrom = 0 /\ satBelow = 0

NextInput ==
    \/ SetContConv
    \/ CapInputCall
    \/ CapFilterCall
    \/ ConfigurationCall

SpecInput == InitInput /\ [][NextInput]_vars

\* C9: cap_input called with a value that is not one of the four input
\* settings, and cap_filter called with a value that is not one of the eight
\* filter settings, raise the validation error before any transport access:
\* the call issues no register read and no register write.
C9_ValidateBeforeTransport ==
    /\ (op = "cap_input" /\ arg.val \notin CapInput) => (err = ValueError /\ log = <<>>)
    /\ (op = "cap_filter" /\ arg.val \notin CapFilter) => (err = ValueError /\ log = <<>>)

\* C23: cap_input writes the capacitance setup register 0x07 with CAPEN
\* (bit 7) set and with CAPDIFF (bit 5) set for the two differential settings
\* and clear for the two single-ended ones, CIN2 (bit 6) choosing the input;
\* the four settings give four different (CIN2, CAPDIFF) pairs.
C23_DifferentialBit ==
    (op = "cap_input" /\ arg.val \in CapInput) =>
        /\ err = NoError
        /\ <<7, regs[7]>> \in RegWrites(log)
        /\ (regs[7] \div 128) % 2 = 1
        /\ ((regs[7] \div 32) % 2 = 1) = (arg.val \in {"CAP_DIFF_CIN1", "CAP_DIFF_CIN2"})
        /\ ((regs[7] \div 64) % 2 = 1) = (arg.val \in {"CAP2_EXC2", "CAP_DIFF_CIN2"})

\* The 3-bit code of a filter setting: its place in the enumeration.
FilterCode(filter_setting) ==
    CASE filter_setting = "CONV87Hz" -> 0
      [] filter_setting = "CONV79Hz" -> 1
      [] filter_setting = "CONV44Hz" -> 2
      [] filter_setting = "CONV22Hz" -> 3
      [] filter_setting = "CONV14Hz" -> 4
      [] filter_setting = "CONV11Hz" -> 5
      [] filter_setting = "CONV9Hz"  -> 6
      [] filter_setting = "CONV8Hz"  -> 7

\* C18: cap_filter with a valid setting leaves bits 5..3 of register 0x0A at
\* the code of the setting and bits 7..6 (VTFS1, VTFS0) and 2..0 (MD2..MD0) as
\* they were before the call; the call issues exactly one register write, a
\* full byte to 0x0A, and every other register keeps its value.
C18_FilterReadModifyWrite ==
    [][(op' = "cap_filter" /\ arg'.val \in CapFilter) =>
          /\ err' = NoError
          /\ (regs'[10] \div 8) % 8 = FilterCode(arg'.val)
          /\ regs'[10] \div 64 = regs[10] \div 64
          /\ regs'[10] % 8 = regs[10] % 8
          /\ Cardinality(RegWritePositions(log')) = 1
          /\ RegWrites(log') = {<<10, regs'[10]>>}
          /\ \A a \in RegAddrs \ {10} : regs'[a] = regs[a]]_vars

\* A filter was selected on a configuration whose voltage filter and mode
\* bits differ from those the constructor wrote: VTFS = 01, filter code 2,
\* MD = 001.
C18_Witness ==
    /\ op = "cap_filter"
    /\ err = NoError
    /\ arg.val = "CONV44Hz"
    /\ regs[10] = 64 + 16 + 1

----------------------------------------------------------------------------
(* Calibration: cal_low_val, one action per stretch of the routine, against *)
(* a device whose reading depends on the DAC-A code alone: zero for the     *)
(* codes from zeroFrom on, full scale for the codes below satBelow, and a   *)
(* mid-scale value in between.  The device has a sample ready at every      *)
(* status read and never reports an excitation fault.                       *)

\* The default of get_raw_cap_val's timeout parameter.
DefaultTimeout == 10

\* The full-scale 24-bit reading, 0xFFFFFF.
FullScale == 16777215

\* A reading that is neither zero nor full scale.
MidReading == Shl(1, 23)

\* The last DAC-A code, the limit of the scan loop.
LastCode == 127

\* The floors the model's callers pass to cal_low_val.
StartVals == {-1, 0, 1, LastCode - 1, LastCode, LastCode + 1}

\* The codes from which on the reading of the model's devices is zero;
\* LastCode + 1 is the device whose reading is never zero.
ZeroFroms == {0, 1, 2, 50, LastCode - 1, LastCode, LastCode + 1}

CapReading(code) ==
    IF code >= zeroFrom THEN 0
    ELSE IF code < satBelow THEN FullScale
    ELSE MidReading

\* The status byte of a device with a sample ready and no fault.
ReadyStatus == 0

\* get_raw_cap_val() with the default timeout, against the device above.
get_raw_cap_val(t) ==
    Bind(acq_enter(t, cont_conv), LAMBDA e :
        IF e.err # NoError THEN e
        ELSE LET code == AndLow(e.regs[CAP_DAC_A_ADDR], CAP_DAC_A_DACA7bit)
             IN  acq_poll(DeviceStep(e, ReadyStatus, CapReading(code), 0),
                          e.now, DefaultTimeout))

\* The assignment self.cap_daca = cap_daca_reg(DACAENA=True, DACA7bit=c) of
\* lines 1041 and 1049.
cal_set(t, c) == cap_daca_set(t, [DACAENA |-> TRUE, DACA7bit |-> c])

\* The state after a stretch of cal_low_val that ended in call state t: the
\* routine goes on at nextpc with the scan at code c, unless t holds an
\* exception or nextpc is "idle", which end the call.
CalStep(t, sv, c, nextpc) ==
    /\ regs' = Stored(t)
    /\ log' = t.log
    /\ err' = t.err
    /\ ret' = IF nextpc = "idle" THEN Result(t, "cal_low_val") ELSE NoResult
    /\ now' = t.now
    /\ op' = "cal_low_val"
    /\ arg' = Called("cal_low_val", sv)
    /\ st_val' = sv
    /\ start' = c
    /\ pc' = IF t.err # NoError THEN "idle" ELSE nextpc
    /\ UNCHANGED <<cont_conv, _cap_dac_lsb, closes, alive, start_time, timeout,
                   failAt, given, zeroFrom, satBelow, entryMode, shadow, hist>>

\* cal_low_val(st_val) is called.  Line 1033 builds a structure and drops
\* it; line 1035 flushes a first reading.
CalBegin ==
    /\ Callable
    /\ \E sv \in StartVals :
        CalStep(get_raw_cap_val(Entry), sv, sv, "cal_flush")

\* Lines 1036-1039: the second flushed reading, start := st_val and the
\* first test of the loop condition.
CalFlush ==
    /\ pc = "cal_flush"
    /\ CalStep(get_raw_cap_val(Entry), st_val, st_val,
               IF st_val <= LastCode THEN "cal_scan" ELSE "cal_back")

\* Lines 1041-1042: the DAC is set to the code of the scan and a reading is
\* thrown away.
CalScan ==
    /\ pc = "cal_scan"
    /\ CalStep(get_raw_cap_val(cal_set(Entry, start)), st_val, start, "cal_test")

\* Lines 1044-1048 and 1039: the reading that decides whether the scan goes
\* on, and the test of the loop condition.
CalTest ==
    /\ pc = "cal_test"
    /\ LET t == get_raw_cap_val(Entry)
       IN  IF t.err = NoError /\ t.ret > 0
           THEN CalStep(t, st_val, start + 1,
                        IF start + 1 <= LastCode THEN "cal_scan" ELSE "cal_back")
           ELSE CalStep(t, st_val, start, "cal_back")

\* Lines 1049-1050: the DAC is set to start - 1 and a reading is thrown away.
CalBack ==
    /\ pc = "cal_back"
    /\ CalStep(get_raw_cap_val(cal_set(Entry, start - 1)), st_val, start, "cal_check")

\* Line 1051, left operand: a reading that is zero fails the calibration.
CalCheck ==
    /\ pc = "cal_check"
    /\ LET t == get_raw_cap_val(Entry)
       IN  CalStep(t, st_val, start,
                   IF t.err = NoError /\ t.ret # 0 THEN "cal_full" ELSE "cal_fail")

\* Lines 1051-1052, right operand: one more reading; unless it is full
\* scale, start is returned.
CalFull ==
    /\ pc = "cal_full"
    /\ LET t == get_raw_cap_val(Entry)
       IN  IF t.err = NoError /\ t.ret # FullScale
           THEN CalStep(Return(t, start), st_val, start, "idle")
           ELSE CalStep(t, st_val, start, "cal_fail")

\* Lines 1053-1056: the fault indicator, a reading for the message, and the
\* exception.
CalFail ==
    /\ pc = "cal_fail"
    /\ CalStep(Raise(get_raw_cap_val(setLEDRGB(Entry)), CalibrationError),
               st_val, start, "idle")

InitCal ==
    /\ Constructed
    /\ given = NoneGiven
    /\ zeroFrom \in ZeroFroms
    /\ satBelow \in {0, zeroFrom}

NextCal ==
    \/ CalBegin
    \/ CalFlush
    \/ CalScan
    \/ CalTest
    \/ CalBack
    \/ CalCheck
    \/ CalFull
    \/ CalFail

SpecCal == InitCal /\ [][NextCal]_vars

\* cal_low_val has ended, having been called with a floor in the DAC range.
CalEnded == op = "cal_low_val" /\ pc = "idle" /\ st_val \in 0 .. LastCode

\* C3: with a reading that is nonzero and not saturated for every code below
\* some k (floor < k <= 127) and zero from k on, cal_low_val returns k - 1,
\* the last code with a nonzero reading.
C3_ReturnsLastNonzero ==
    (CalEnded /\ satBelow = 0 /\ st_val < zeroFrom /\ zeroFrom <= LastCode) =>
        (err = NoError /\ ret.val = zeroFrom - 1)

\* C4: with a reading that is nonzero for every code from the floor up to
\* 127, cal_low_val ends with the calibration error: it returns no code as a
\* success, and never a value outside 0..127.
C4_NeverZeroFails ==
    (CalEnded /\ zeroFrom = LastCode + 1) => err = CalibrationError

\* C19: cal_low_val begins by writing {enabled, code 0}, the byte 0x80, to
\* the DAC-A register 0x0B, before its first status read: when the first
\* stale sample has been discarded the write is in the log, ahead of every
\* register read.
C19_DacResetFirst ==
    (op = "cal_low_val" /\ pc = "cal_flush") =>
        \E w \in RegWritePositions(log) :
            /\ l_addr(log, w) = 11
            /\ log[w + 2][2] = 128
            /\ \A r \in RegReadPositions(log) : w < r

\* C20: in the step back, the sample acquired right after the throwaway one
\* is the only one the success decision looks at: cal_low_val returns its
\* code in the step that follows the throwaway sample, a step with a single
\* acquisition, so that the zero test and the saturation test see the same
\* sample.
C20_OneMeasuredSample ==
    [][(op' = "cal_low_val" /\ pc' = "idle" /\ err' = NoError) =>
          (pc = "cal_check" /\ StatusReads(log') = 1)]_vars

\* C21: when cal_low_val, called with a floor in the DAC range on a device
\* that always has a sample ready and a bus that never fails, does not return
\* a code, it has signalled the fault indicator and raises the calibration
\* error; so also when the first scanned code, 0, already reads zero.
C21_FailureIsCalibrationError ==
    (CalEnded /\ err # NoError) =>
        /\ err = CalibrationError
        /\ \E i \in DOMAIN log : log[i][1] = "setLEDRGB"

----------------------------------------------------------------------------
(* The read-only registers: status, capacitance data and voltage or         *)
(* temperature data, read between conversions of the device.                *)

\* AD7745.vt_data: the three bytes are read from CAP_DATA_H_ADDR on.
vt_data(t) ==
    Bind(read_byte(t, CAP_DATA_H_ADDR, 3), LAMBDA r :
        IF r.err # NoError THEN r
        ELSE Return(r, Shl(r.ret[1], 16) + Shl(r.ret[2], 8) + r.ret[3]))

\* The device ends a conversion: it shows status byte s and holds a
\* capacitance result and a voltage or temperature result.
DeviceConversion(t, s, cap, vt) ==
    [DeviceStep(t, s, cap, 0) EXCEPT !.regs[VT_DATA_H_ADDR] = Shr(vt, 16) % 256,
                                     !.regs[VT_DATA_M_ADDR] = Shr(vt, 8) % 256,
                                     !.regs[VT_DATA_L_ADDR] = vt % 256]

\* A conversion of the device (no call of the driver).
Conversion ==
    /\ Callable
    /\ \E s \in StatusBytes, cap \in CapSamples, vt \in CapSamples :
        Commit(DeviceConversion(Entry, s, cap, vt), "conversion", None)
    /\ UNCHANGED <<cont_conv, _cap_dac_lsb, closes, alive, failAt, given, start,
                   st_val, zeroFrom, satBelow, shadow>>

StatusGet ==
    /\ Callable
    /\ Commit(status(Entry), "status", None)
    /\ UNCHANGED <<cont_conv, _cap_dac_lsb, closes, alive, failAt, given, start,
                   st_val, zeroFrom, satBelow, shadow>>

CapDataGet ==
    /\ Callable
    /\ Commit(cap_data(Entry), "cap_data", None)
    /\ UNCHANGED <<cont_conv, _cap_dac_lsb, closes, alive, failAt, given, start,
                   st_val, zeroFrom, satBelow, shadow>>

VtDataGet ==
    /\ Callable
    /\ Commit(vt_data(Entry), "vt_data", None)
    /\ UNCHANGED <<cont_conv, _cap_dac_lsb, closes, alive, failAt, given, start,
                   st_val, zeroFrom, satBelow, shadow>>

InitData == Constructed /\ given = NoneGiven /\ zeroFrom = 0 /\ satBelow = 0

NextData ==
    \/ Conversion
    \/ StatusGet
    \/ CapDataGet
    \/ VtDataGet

SpecData == InitData /\ [][NextData]_vars

\* Bit k of a byte, by division.
BitOf(byte, k) == (byte \div (2 ^ k)) % 2 = 1

\* C11: vt_data returns high*65536 + mid*256 + low of the voltage or
\* temperature data registers 0x04..0x06, whatever the capacitance data
\* registers 0x01..0x03 hold.
C11_VtDataFromVtRegisters ==
    op = "vt_data" =>
        /\ err = NoError
        /\ ret.val = regs[4] * 65536 + regs[5] * 256 + regs[6]

\* C16: status decodes bit 3 as the excitation fault, bit 2 as result ready,
\* bit 1 as voltage result ready and bit 0 as capacitance result ready, each
\* flag from its own bit alone, and every access reads register 0x00 anew.
C16_StatusDecode ==
    op = "status" =>
        /\ err = NoError
        /\ ret.val = [EXCERR |-> BitOf(regs[0], 3), RDY |-> BitOf(regs[0], 2),
                      RDYVT |-> BitOf(regs[0], 1), RDYCAP |-> BitOf(regs[0], 0)]
        /\ log = ReadCalls(STATUS_ADDR, 1)

\* A status byte with bits 3 and 1 set and bits 2 and 0 clear was decoded
\* after the device had shown another status byte before.
C16_Witness ==
    /\ op = "status"
    /\ regs[0] = 10
    /\ err = NoError
    /\ ret.val = [EXCERR |-> TRUE, RDY |-> FALSE, RDYVT |-> TRUE, RDYCAP |-> FALSE]

----------------------------------------------------------------------------
(* Scale factors.  A Python float is modelled by the rational number it    *)
(* stands for, kept in lowest terms as [num, den] with den > 0.            *)

RECURSIVE GCD(_, _)
GCD(a, b) == IF b = 0 THEN a ELSE GCD(b, a % b)

Rat(n, d) == LET g == GCD(n, d) IN [num |-> n \div g, den |-> d \div g]

\* a * b, reduced crosswise before the products are formed.
RatMul(a, b) ==
    LET g1 == GCD(a.num, b.den)
        g2 == GCD(b.num, a.den)
    IN  Rat((a.num \div g1) * (b.num \div g2), (a.den \div g2) * (b.den \div g1))

\* a / b
RatDiv(a, b) == RatMul(a, [num |-> b.den, den |-> b.num])

\* a < b, over the least common denominator.
RatLess(a, b) ==
    LET g == GCD(a.den, b.den)
    IN  a.num * (b.den \div g) < b.num * (a.den \div g)

\* The conversion with the full 24-bit range as the divisor.
cap_val_to_pf_full_range(cap_val) ==
    RatMul(Rat(cap_val, 1), RatDiv(Rat(4096, 1000), Rat(Shl(1, 24), 1)))

\* AD7745.cap_val_to_pf: cap_val * (4.096 / 0x800000)
cap_val_to_pf(cap_val) ==
    RatMul(Rat(cap_val, 1), RatDiv(Rat(4096, 1000), Rat(Shl(1, 23), 1)))

(* The 16-bit calibration registers.                                        *)

cap_offset_get(t) ==
    Bind(read_byte(t, CAP_OFFSET_H_ADDR, 2), LAMBDA r :
        IF r.err # NoError THEN r ELSE Return(r, Shl(r.ret[1], 8) + r.ret[2]))

cap_offset_set(t, val) ==
    Bind(write_byte(t, CAP_OFFSET_H_ADDR, Shr(val, 8)), LAMBDA r :
        write_byte(r, CAP_OFFSET_L_ADDR, val % 256))

\* AD7745.cap_gain (getter): the two bytes are read from CAP_OFFSET_H_ADDR on.
cap_gain_get(t) ==
    Bind(read_byte(t, CAP_OFFSET_H_ADDR, 2), LAMBDA r :
        IF r.err # NoError THEN r ELSE Return(r, Shl(r.ret[1], 8) + r.ret[2]))

cap_gain_set(t, val) ==
    Bind(write_byte(t, CAP_GRAIN_H_ADDR, Shr(val, 8)), LAMBDA r :
        write_byte(r, CAP_GRAIN_L_ADDR, val % 256))

volt_gain_get(t) ==
    Bind(read_byte(t, VOLT_GRAIN_H_ADDR, 2), LAMBDA r :
        IF r.err # NoError THEN r ELSE Return(r, Shl(r.ret[1], 8) + r.ret[2]))

volt_gain_set(t, val) ==
    Bind(write_byte(t, VOLT_GRAIN_H_ADDR, Shr(val, 8)), LAMBDA r :
        write_byte(r, VOLT_GRAIN_L_ADDR, val % 256))

\* AD7745.cap_dac_lsb, memo = self._cap_dac_lsb (<<>> while it is None).
cap_dac_lsb(t, memo) ==
    IF memo = <<>>
    THEN Bind(cap_gain_get(t), LAMBDA r :
            IF r.err # NoError THEN r
            ELSE LET f_gain_cal  == Rat(Shl(1, 16) + r.ret, Shl(1, 16))
                     c_ref       == RatMul(Rat(4096, 1000), f_gain_cal)
                     c_dac_range == RatMul(c_ref, Rat(32, 10))
                     c_dac_lsb   == RatDiv(c_dac_range, Rat(127, 1))
                 IN  Return(r, c_dac_lsb))
    ELSE Return(t, memo[1])

\* Values written to the calibration registers, and raw counts converted.
CalValues == {0, 255, 256, 43981, 65535}
RawCounts == {0, 1, 2, 3, 1000, 2048000, 4194304, 8388607, 8388608, 8388609,
              16777214, 16777215}

CapOffsetSet ==
    /\ Callable
    /\ \E val \in CalValues : Commit(cap_offset_set(Entry, val), "cap_offset.setter", val)
    /\ UNCHANGED <<cont_conv, _cap_dac_lsb, closes, alive, failAt, given, start,
                   st_val, zeroFrom, satBelow, shadow>>

CapOffsetGet ==
    /\ Callable
    /\ Commit(cap_offset_get(Entry), "cap_offset", None)
    /\ UNCHANGED <<cont_conv, _cap_dac_lsb, closes, alive, failAt, given, start,
                   st_val, zeroFrom, satBelow, shadow>>

CapGainSet ==
    /\ Callable
    /\ \E val \in CalValues : Commit(cap_gain_set(Entry, val), "cap_gain.setter", val)
    /\ UNCHANGED <<cont_conv, _cap_dac_lsb, closes, alive, failAt, given, start,
                   st_val, zeroFrom, satBelow, shadow>>

CapGainGet ==
    /\ Callable
    /\ Commit(cap_gain_get(Entry), "cap_gain", None)
    /\ UNCHANGED <<cont_conv, _cap_dac_lsb, closes, alive, failAt, given, start,
                   st_val, zeroFrom, satBelow, shadow>>

VoltGainSet ==
    /\ Callable
    /\ \E val \in CalValues : Commit(volt_gain_set(Entry, val), "volt_gain.setter", val)
    /\ UNCHANGED <<cont_conv, _cap_dac_lsb, closes, alive, failAt, given, start,
                   st_val, zeroFrom, satBelow, shadow>>

VoltGainGet ==
    /\ Callable
    /\ Commit(volt_gain_get(Entry), "volt_gain", None)
    /\ UNCHANGED <<cont_conv, _cap_dac_lsb, closes, alive, failAt, given, start,
                   st_val, zeroFrom, satBelow, shadow>>

CapDacLsb ==
    /\ Callable
    /\ LET r == cap_dac_lsb(Entry, _cap_dac_lsb)
       IN  /\ Commit(r, "cap_dac_lsb", None)
           /\ _cap_dac_lsb' = IF r.err = NoError THEN <<r.ret>> ELSE _cap_dac_lsb
    /\ UNCHANGED <<cont_conv, closes, alive, failAt, given, start,
                   st_val, zeroFrom, satBelow, shadow>>

CapValToPf ==
    /\ Callable
    /\ \E cap_val \in RawCounts :
        Commit(Return(Entry, cap_val_to_pf(cap_val)), "cap_val_to_pf", cap_val)
    /\ UNCHANGED <<cont_conv, _cap_dac_lsb, closes, alive, failAt, given, start,
                   st_val, zeroFrom, satBelow, shadow>>

InitScale == Constructed /\ given = NoneGiven /\ zeroFrom = 0 /\ satBelow = 0

NextScale ==
    \/ CapOffsetSet
    \/ CapOffsetGet
    \/ CapGainSet
    \/ CapGainGet
    \/ VoltGainSet
    \/ VoltGainGet
    \/ CapDacLsb
    \/ CapValToPf

SpecScale == InitScale /\ [][NextScale]_vars

\* C12: a 16-bit value written with the cap_gain setter is what the cap_gain
\* getter returns next, the getter reading registers 0x0F and 0x10; likewise
\* for cap_offset (0x0D, 0x0E) and volt_gain (0x11, 0x12).
C12_CalibrationRoundTrip ==
    [][/\ (op = "cap_gain.setter" /\ op' = "cap_gain") =>
              (err' = NoError /\ ret'.val = arg.val /\ log' = ReadCalls(15, 2))
       /\ (op = "cap_offset.setter" /\ op' = "cap_offset") =>
              (err' = NoError /\ ret'.val = arg.val /\ log' = ReadCalls(13, 2))
       /\ (op = "volt_gain.setter" /\ op' = "volt_gain") =>
              (err' = NoError /\ ret'.val = arg.val /\ log' = ReadCalls(17, 2))]_vars

\* C14: the first access of cap_dac_lsb reads the gain calibration register
\* (0x0F, 0x10) once and keeps the estimate; every later access returns the
\* kept estimate with no transport call, whatever the registers hold by then.
C14_LsbComputedOnce ==
    [][op' = "cap_dac_lsb" =>
          IF _cap_dac_lsb = <<>>
          THEN /\ log' = ReadCalls(15, 2)
               /\ _cap_dac_lsb' = <<ret'.val>>
          ELSE /\ log' = <<>>
               /\ ret'.val = _cap_dac_lsb[1]
               /\ UNCHANGED _cap_dac_lsb]_vars

\* C17: the conversion of raw counts to picofarads is linear: 0 gives 0,
\* 0x800000 gives 4.096, conversion(raw) * 0x800000 = raw * 4.096 (both sides
\* divided by 4096 here), doubling the count doubles the result, and a larger
\* count gives a larger result.
C17_LinearConversion ==
    op = "cap_val_to_pf" =>
        LET raw == arg.val
            pf  == ret.val
        IN  /\ err = NoError
            /\ raw = 0 => pf = Rat(0, 1)
            /\ raw = 8388608 => pf = Rat(4096, 1000)
            /\ RatMul(pf, Rat(2048, 1)) = RatMul(Rat(raw, 1), Rat(1, 1000))
            /\ 2 * raw <= 16777215 => cap_val_to_pf(2 * raw) = RatMul(Rat(2, 1), pf)
            /\ \A smaller \in RawCounts :
                smaller < raw => RatLess(cap_val_to_pf(smaller), pf)

\* A count between zero and mid-scale was converted after other calls.
C17_Witness ==
    /\ op = "cap_val_to_pf"
    /\ err = NoError
    /\ arg.val = 4194304
    /\ ret.val = Rat(2048, 1000)
    /\ _cap_dac_lsb # <<>>

----------------------------------------------------------------------------
(* Register writes and reads over a bridge that fails.                      *)

\* What a failing bridge answers: the failure line, or a line that is neither
\* "-OK" nor "-NG" and holds no data bytes.
FaultAnswers == {"-NG", "-??"}

\* The four transport calls of a register write or read, and no failure (0).
FailPoints == 0 .. 4

FaultRegisters == {CAP_DAC_A_ADDR, CAP_OFFSET_H_ADDR}
FaultValues == {0, 1, 255}

\* The bridge as it behaves during one call.
Faults == {NoFault} \cup [at : FailPoints \ {0}, answer : FaultAnswers]

WriteByte ==
    /\ Callable
    /\ \E f \in Faults, register \in FaultRegisters, value \in FaultValues :
        /\ failAt' = f
        /\ Commit(write_byte([Entry EXCEPT !.failAt = f], register, value),
                  "write_byte", <<register, value>>)
    /\ UNCHANGED <<cont_conv, _cap_dac_lsb, closes, alive, given, start,
                   st_val, zeroFrom, satBelow, shadow>>

ReadByte ==
    /\ Callable
    /\ \E f \in Faults, addr \in FaultRegisters, byte_len \in 1 .. 2 :
        /\ failAt' = f
        /\ Commit(read_byte([Entry EXCEPT !.failAt = f], addr, byte_len),
                  "read_byte", <<addr, byte_len>>)
    /\ UNCHANGED <<cont_conv, _cap_dac_lsb, closes, alive, given, start,
                   st_val, zeroFrom, satBelow, shadow>>

InitFault == Constructed /\ given = NoneGiven /\ zeroFrom = 0 /\ satBelow = 0

NextFault ==
    \/ WriteByte
    \/ ReadByte

SpecFault == InitFault /\ [][NextFault]_vars

\* The transport calls of one register write.
WriteCalls(register, value) ==
    << <<"startI2C", WRITE_ADDR>>, <<"writeByteI2C", register>>,
       <<"writeByteI2C", value>>, <<"endI2C", 0>> >>

\* C15: in a register write and in a register read, when a transport step
\* (start, address byte, value byte, end, or the data read) answers with a
\* failure or with something unrecognized, the operation raises the transport
\* fault, and its transport calls are those up to the failed step, each made
\* once: nothing follows the failed step and the step is not repeated.
C15_FaultStopsOperation ==
    /\ (op = "write_byte" /\ failAt.at > 0) =>
          /\ err = RuntimeError
          /\ log = SubSeq(WriteCalls(arg.val[1], arg.val[2]), 1, failAt.at)
    /\ (op = "read_byte" /\ failAt.at > 0) =>
          /\ err = RuntimeError
          /\ log = SubSeq(ReadCalls(arg.val[1], arg.val[2]), 1, failAt.at)

====
